---- MODULE Spec2Model ----
(***************************************************************************)
(* The device-resident command-and-update engine of                       *)
(* micropython_firmware/main.py (class WebSerialESP32): the frame reader, *)
(* the binary transfer engine, the command dispatcher and the OTA update  *)
(* manager, as one state machine.                                         *)
(*                                                                         *)
(* `self' is the engine instance (the fields __init__ sets), `fs' the     *)
(* flash file system the uos / open calls act on, `uart_rx' the bytes the *)
(* host has written that the engine has not read yet, `uart_tx' the       *)
(* responses the engine wrote during the last step and `now' the value of *)
(* utime.ticks_ms().                                                       *)
(***************************************************************************)
EXTENDS Integers, Sequences, FiniteSets, TLC

VARIABLES self, fs, uart_rx, uart_tx, now, rxlog, txlog, host

vars == <<self, fs, uart_rx, uart_tx, now, rxlog, txlog, host>>

(***************************************************************************)
(* Bounds of the model.                                                    *)
(***************************************************************************)
\* buffer_size of __init__ (2048 in the source), scaled down.
buffer_size == 4
\* len(self.binary_buffer) (4096 in the source), scaled down.
binary_capacity == 2
\* self.timeout_ms (100 in the source), scaled down.
timeout_ms == 2
\* the period of utime.ticks_ms(), scaled down.
TicksPeriod == 6
\* the longest temp artifact the OTA chunks may build.
MaxFileLen == 2
\* the largest size an ota_start declares.
MaxSize == 2
\* the longest data list of one ota_chunk.
MaxChunk == 2
\* the number of bytes the host writes in one run.
MaxSent == 5
\* the number of storage calls that fail during one command.
MaxFaults == 2

(***************************************************************************)
(* Python values.                                                          *)
(***************************************************************************)
None == "<None>"
NoExc == "<no exception>"
NoResp == [type |-> None]

\* dict.get(key, default)
Get(data, key, default) == IF key \in DOMAIN data THEN data[key] ELSE default

\* truth value of an Optional[str]
Truthy(s) == s \notin {None, ""}

RECURSIVE SumSeq(_)
SumSeq(s) == IF s = <<>> THEN 0 ELSE s[1] + SumSeq(Tail(s))

\* Outcome of a handler: the world it leaves, and what it returned or raised.
Return(w, r) == [w |-> w, ret |-> r, exc |-> NoExc]
Raise(w, msg) == [w |-> w, ret |-> NoResp, exc |-> msg]

(***************************************************************************)
(* Response Encoder.                                                       *)
(***************************************************************************)
send_json(w, data) == [w EXCEPT !.tx = Append(@, data)]

send_error(w, message, env) ==
    send_json(w, [type |-> "error", message |-> message, timestamp |-> env.ticks])

(***************************************************************************)
(* Storage: fs maps each existing path to the bytes of the file.  A call  *)
(* raises OSError when the path it needs is missing or when the flash     *)
(* fails (fault); a call that raises leaves fs as it was.                 *)
(***************************************************************************)
Without(f, p) == [q \in (DOMAIN f) \ {p} |-> f[q]]
With(f, p, v) == [q \in (DOMAIN f) \cup {p} |-> IF q = p THEN v ELSE f[q]]

uos_remove(f, p, fault) ==
    IF fault \/ p \notin DOMAIN f
    THEN [ok |-> FALSE, fs |-> f]
    ELSE [ok |-> TRUE, fs |-> Without(f, p)]

uos_rename(f, old, new, fault) ==
    IF fault \/ old \notin DOMAIN f
    THEN [ok |-> FALSE, fs |-> f]
    ELSE [ok |-> TRUE, fs |-> With(Without(f, old), new, f[old])]

uos_stat(f, p, fault) ==
    IF fault \/ p \notin DOMAIN f
    THEN [ok |-> FALSE, size |-> 0]
    ELSE [ok |-> TRUE, size |-> Len(f[p])]

\* with open(p, 'wb') as f: pass
open_wb(f, p, fault) ==
    IF fault THEN [ok |-> FALSE, fs |-> f] ELSE [ok |-> TRUE, fs |-> With(f, p, <<>>)]

\* with open(p, 'ab') as f: f.write(bytes)
open_ab_write(f, p, bytes, fault) ==
    IF fault
    THEN [ok |-> FALSE, fs |-> f]
    ELSE [ok |-> TRUE,
          fs |-> With(f, p, (IF p \in DOMAIN f THEN f[p] ELSE <<>>) \o bytes)]

\* hashlib.md5 over the file read in 256-byte chunks, as a hex string.  The
\* digest is abstracted to a two-valued function of the content (the parity
\* of its byte sum), so that different contents may or may not collide.
Md5Hex(content) ==
    IF SumSeq(content) % 2 = 0 THEN "d0" ELSE "d1"

\* bytes(chunk_data): ValueError unless every item is in range(256)
BytesOk(chunk_data) == \A i \in 1..Len(chunk_data) : chunk_data[i] \in 0..255

(***************************************************************************)
(* OTA Update Manager.                                                     *)
(***************************************************************************)
\* (mutant) a headroom test against all of the free memory
TooLarge_AllFree(size, free_mem) == size > free_mem

\* size > free_mem * 0.8
TooLarge(size, free_mem) == 10 * size > 8 * free_mem

\* (mutant) a start that keeps the checksum of an earlier session when the
\* command carries none
handle_ota_start_KeepsChecksum(w, data, env) ==
    LET filename == Get(data, "filename", "main.py")
        size == Get(data, "size", 0)
        checksum == Get(data, "checksum", w.self.ota_checksum)
    IN  IF size <= 0 THEN Raise(w, "Invalid file size")
        ELSE IF TooLarge(size, env.free_mem) THEN Raise(w, "File too large")
        ELSE
          LET temp == filename \o ".tmp"
              s1 == [w.self EXCEPT !.ota_in_progress = TRUE,
                                   !.ota_filename = filename,
                                   !.ota_size = size,
                                   !.ota_received = 0,
                                   !.ota_checksum = checksum,
                                   !.ota_temp = temp]
              rm == uos_remove(w.fs, temp, "start.remove" \in env.faults)
              mk == open_wb(rm.fs, temp, "start.open" \in env.faults)
          IN  IF mk.ok
              THEN Return([w EXCEPT !.self = s1, !.fs = mk.fs],
                          [type |-> "ota_ready", filename |-> filename,
                           expected_size |-> size, temp_file |-> temp])
              ELSE Raise([w EXCEPT !.self = [s1 EXCEPT !.ota_in_progress = FALSE],
                                   !.fs = mk.fs],
                         "Failed to start OTA")

handle_ota_start(w, data, env) ==
    LET filename == Get(data, "filename", "main.py")
        size == Get(data, "size", 0)
        checksum == Get(data, "checksum", None)
    IN  IF size <= 0 THEN Raise(w, "Invalid file size")
        ELSE IF TooLarge(size, env.free_mem) THEN Raise(w, "File too large")
        ELSE
          LET temp == filename \o ".tmp"
              s1 == [w.self EXCEPT !.ota_in_progress = TRUE,
                                   !.ota_filename = filename,
                                   !.ota_size = size,
                                   !.ota_received = 0,
                                   !.ota_checksum = checksum,
                                   !.ota_temp = temp]
              rm == uos_remove(w.fs, temp, "start.remove" \in env.faults)
              mk == open_wb(rm.fs, temp, "start.open" \in env.faults)
          IN  IF mk.ok
              THEN Return([w EXCEPT !.self = s1, !.fs = mk.fs],
                          [type |-> "ota_ready", filename |-> filename,
                           expected_size |-> size, temp_file |-> temp])
              ELSE Raise([w EXCEPT !.self = [s1 EXCEPT !.ota_in_progress = FALSE],
                                   !.fs = mk.fs],
                         "Failed to start OTA")

\* (mutant) a count of chunks for a count of bytes
ReceivedAfter_CountsChunks(ota_received, chunk_bytes) == ota_received + 1

\* self.ota_received += len(chunk_bytes)
ReceivedAfter(ota_received, chunk_bytes) == ota_received + Len(chunk_bytes)

handle_ota_chunk(w, data, env) ==
    IF ~w.self.ota_in_progress THEN Raise(w, "No OTA in progress")
    ELSE
      LET chunk_data == Get(data, "data", <<>>)
      IN  IF chunk_data = <<>> THEN Raise(w, "No data in chunk")
          ELSE IF ~BytesOk(chunk_data) THEN Raise(w, "Chunk write failed")
          ELSE
            LET wr == open_ab_write(w.fs, w.self.ota_temp, chunk_data,
                                    "chunk.write" \in env.faults)
                received == ReceivedAfter(w.self.ota_received, chunk_data)
            IN  IF ~wr.ok THEN Raise(w, "Chunk write failed")
                ELSE Return([w EXCEPT !.fs = wr.fs, !.self.ota_received = received],
                            [type |-> "ota_progress", received |-> received,
                             total |-> w.self.ota_size])

\* (mutant) the except branch without the removal of the temp artifact
OtaFinishCleanup_KeepsTemp(w, f, msg, env) ==
    Raise([w EXCEPT !.fs = f, !.self.ota_in_progress = FALSE],
          "OTA finish failed: " \o msg)

\* (mutant) the except branch without the reset of ota_in_progress
OtaFinishCleanup_KeepsSession(w, f, msg, env) ==
    LET rm == uos_remove(f, w.self.ota_temp, "finish.cleanup" \in env.faults)
    IN  Raise([w EXCEPT !.fs = rm.fs], "OTA finish failed: " \o msg)

\* the except branch of handle_ota_finish
OtaFinishCleanup(w, f, msg, env) ==
    LET rm == uos_remove(f, w.self.ota_temp, "finish.cleanup" \in env.faults)
    IN  Raise([w EXCEPT !.fs = rm.fs, !.self.ota_in_progress = FALSE],
              "OTA finish failed: " \o msg)

\* (mutant) a size check that only rejects a temp artifact that is too long
OtaSizeOk_AtMost(actual_size, ota_size) == actual_size <= ota_size

\* the size check of handle_ota_finish
OtaSizeOk(actual_size, ota_size) == actual_size = ota_size

\* the checksum check of handle_ota_finish
OtaChecksumOk(actual_checksum, ota_checksum) == actual_checksum = ota_checksum

handle_ota_finish(w, data, env) ==
    IF ~w.self.ota_in_progress THEN Raise(w, "No OTA in progress")
    ELSE
      LET s == w.self
          stat == uos_stat(w.fs, s.ota_temp, "finish.stat" \in env.faults)
          readable == s.ota_temp \in DOMAIN w.fs /\ "finish.read" \notin env.faults
          backup_name == s.ota_filename \o ".bak"
          fs1 == uos_remove(w.fs, backup_name, "finish.remove_bak" \in env.faults).fs
          fs2 == uos_rename(fs1, s.ota_filename, backup_name,
                            "finish.rename_bak" \in env.faults).fs
          mv == uos_rename(fs2, s.ota_temp, s.ota_filename,
                           "finish.rename_tmp" \in env.faults)
      IN  IF ~stat.ok THEN OtaFinishCleanup(w, w.fs, "OSError", env)
          ELSE IF ~OtaSizeOk(stat.size, s.ota_size)
          THEN OtaFinishCleanup(w, w.fs, "Size mismatch", env)
          ELSE IF Truthy(s.ota_checksum) /\ ~readable
          THEN OtaFinishCleanup(w, w.fs, "OSError", env)
          ELSE IF Truthy(s.ota_checksum)
                  /\ ~OtaChecksumOk(Md5Hex(w.fs[s.ota_temp]), s.ota_checksum)
          THEN OtaFinishCleanup(w, w.fs, "Checksum mismatch", env)
          ELSE IF ~mv.ok THEN OtaFinishCleanup(w, fs2, "OSError", env)
          ELSE Return([w EXCEPT !.fs = mv.fs, !.self.ota_in_progress = FALSE],
                      [type |-> "ota_complete", filename |-> s.ota_filename,
                       size |-> stat.size, backup |-> backup_name,
                       reboot_required |-> s.ota_filename \in {"main.py", "boot.py"}])

\* (mutant) an abort that leaves the session open
handle_ota_abort_KeepsSession(w, data, env) ==
    LET f == IF w.self.ota_in_progress
             THEN uos_remove(w.fs, w.self.ota_temp, "abort.remove" \in env.faults).fs
             ELSE w.fs
    IN  Return([w EXCEPT !.fs = f], [type |-> "ota_aborted", success |-> TRUE])

handle_ota_abort(w, data, env) ==
    LET f == IF w.self.ota_in_progress
             THEN uos_remove(w.fs, w.self.ota_temp, "abort.remove" \in env.faults).fs
             ELSE w.fs
    IN  Return([w EXCEPT !.fs = f,
                         !.self.ota_in_progress = FALSE,
                         !.self.ota_filename = None,
                         !.self.ota_size = 0,
                         !.self.ota_received = 0],
               [type |-> "ota_aborted", success |-> TRUE])

(***************************************************************************)
(* Binary Transfer Engine.                                                 *)
(***************************************************************************)
\* (mutant) a size test that lets size 0 pass
BinarySizeOk_AllowsZero(size) == ~(size < 0 \/ size > binary_capacity)

\* not (size <= 0 or size > len(self.binary_buffer))
BinarySizeOk(size) == ~(size <= 0 \/ size > binary_capacity)

handle_binary_start(w, data, env) ==
    LET size == Get(data, "size", 0)
    IN  IF ~BinarySizeOk(size) THEN Raise(w, "Invalid size")
        ELSE Return([w EXCEPT !.self.binary_mode = TRUE,
                              !.self.binary_expected = size,
                              !.self.binary_received = 0],
                    [type |-> "binary_ready", expected_size |-> size])

\* (mutant) an end that returns the bytes up to the expected size
handle_binary_end_UpToExpected(w, data, env) ==
    IF ~w.self.binary_mode THEN Raise(w, "Not in binary mode")
    ELSE LET s == w.self
             received_data == [i \in 1..s.binary_expected |-> s.binary_buffer[i - 1]]
         IN  Return([w EXCEPT !.self.binary_mode = FALSE,
                              !.self.binary_received = 0,
                              !.self.binary_expected = 0],
                    [type |-> "binary_complete", size |-> s.binary_expected,
                     data |-> received_data])

handle_binary_end(w, data, env) ==
    IF ~w.self.binary_mode THEN Raise(w, "Not in binary mode")
    ELSE LET s == w.self
             received_data == [i \in 1..s.binary_received |-> s.binary_buffer[i - 1]]
         IN  Return([w EXCEPT !.self.binary_mode = FALSE,
                              !.self.binary_received = 0,
                              !.self.binary_expected = 0],
                    [type |-> "binary_complete", size |-> s.binary_received,
                     data |-> received_data])

\* (mutant) the loop body with <= for <
binary_byte_OffByOne(w, byte) ==
    IF w.self.binary_received <= w.self.binary_expected
    THEN [w EXCEPT !.self.binary_buffer[w.self.binary_received] = byte,
                   !.self.binary_received = @ + 1]
    ELSE w

\* the body of the loop of process_binary_data
binary_byte(w, byte) ==
    IF w.self.binary_received < w.self.binary_expected
    THEN [w EXCEPT !.self.binary_buffer[w.self.binary_received] = byte,
                   !.self.binary_received = @ + 1]
    ELSE w

RECURSIVE binary_bytes(_, _)
binary_bytes(w, data) ==
    IF data = <<>> THEN w ELSE binary_bytes(binary_byte(w, Head(data)), Tail(data))

process_binary_data(w, data, env) ==
    LET w1 == binary_bytes(w, data)
    IN  IF w1.self.binary_received >= w1.self.binary_expected
        THEN send_json(w1, [type |-> "binary_received", size |-> w1.self.binary_received])
        ELSE w1

(***************************************************************************)
(* Handler Registry.                                                       *)
(***************************************************************************)
handlers ==
    {"ping", "version", "system_info", "gpio_read", "gpio_write", "adc_read",
     "i2c_scan", "i2c_read", "i2c_write", "spi_transfer", "reboot", "file_list",
     "file_read", "file_write", "file_delete", "file_mkdir", "wifi_scan",
     "wifi_connect", "batch", "binary_start", "binary_end", "ota_start",
     "ota_chunk", "ota_finish", "ota_abort"}

handle_ping(w, data, env) ==
    Return(w, [type |-> "pong", timestamp |-> env.ticks])

handle_version(w, data, env) ==
    Return(w, [type |-> "version", micropython |-> "MicroPython"])

\* Pin(pin_num, Pin.OUT) raises for a pin the chip does not have
PinOk(pin_num, env) == pin_num \in 0..39 /\ "gpio.pin" \notin env.faults

handle_gpio_write(w, data, env) ==
    LET pin_num == Get(data, "pin", None)
        value == Get(data, "value", None)
        pins == w.self.gpio_pins
        out == [mode |-> "output", value |-> value]
    IN  IF "pin" \notin DOMAIN data \/ "value" \notin DOMAIN data
        THEN Raise(w, "Missing pin or value")
        ELSE IF pin_num \notin DOMAIN pins /\ ~PinOk(pin_num, env)
        THEN Raise(w, "Invalid GPIO pin")
        ELSE Return([w EXCEPT !.self.gpio_pins = With(pins, pin_num, out)],
                    [type |-> "gpio_write", pin |-> pin_num, value |-> value,
                     success |-> TRUE])

\* machine.reset() does not return: the response is written, then the device
\* resets and nothing after the call runs.
handle_reboot(w, data, env) ==
    Return([send_json(w, [type |-> "reboot", message |-> "Rebooting..."])
                EXCEPT !.reset = TRUE],
           NoResp)

RECURSIVE CallHandler(_, _, _, _)

\* (mutant) the test for a nested batch left out
IsNestedBatch_Never(cmd) == FALSE

\* handle_batch: if cmd == 'batch'
IsNestedBatch(cmd) == cmd = "batch"

\* (mutant) an error entry that carries the position counted from one
BatchError_FromOne(i, message) == [index |-> i + 1, error |-> message]

\* errors.append({'index': i, 'error': message})
BatchError(i, message) == [index |-> i, error |-> message]

\* the body of the loop of handle_batch for item i; b holds the engine and
\* the two lists
batch_item(b, i, cmd_data, env) ==
    IF "command" \notin DOMAIN cmd_data
    THEN [b EXCEPT !.errors = Append(@, BatchError(i, "No command specified"))]
    ELSE LET cmd == cmd_data.command
         IN  IF cmd \notin handlers
             THEN [b EXCEPT !.errors =
                       Append(@, BatchError(i, "Unknown command: " \o cmd))]
             ELSE IF IsNestedBatch(cmd)
             THEN [b EXCEPT !.errors =
                       Append(@, BatchError(i, "Nested batch not allowed"))]
             ELSE LET r == CallHandler(cmd, b.w, cmd_data, env)
                  IN  IF r.exc # NoExc
                      THEN [b EXCEPT !.w = r.w,
                                     !.errors = Append(@, BatchError(i, r.exc))]
                      ELSE IF r.ret # NoResp
                      THEN [b EXCEPT !.w = r.w,
                                     !.results = Append(@, [index |-> i, result |-> r.ret])]
                      ELSE [b EXCEPT !.w = r.w]

\* (mutant) a loop that stops at the first item that failed
RECURSIVE batch_items_StopAtError(_, _, _, _)
batch_items_StopAtError(b, commands, i, env) ==
    IF i >= Len(commands) \/ b.w.reset \/ b.errors # <<>> THEN b
    ELSE batch_items_StopAtError(batch_item(b, i, commands[i + 1], env),
                                 commands, i + 1, env)

\* for i, cmd_data in enumerate(commands), from item i on
RECURSIVE batch_items(_, _, _, _)
batch_items(b, commands, i, env) ==
    IF i >= Len(commands) \/ b.w.reset THEN b
    ELSE batch_items(batch_item(b, i, commands[i + 1], env), commands, i + 1, env)

handle_batch(w, data, env) ==
    LET commands == Get(data, "commands", <<>>)
    IN  IF commands = <<>> THEN Raise(w, "No commands provided")
        ELSE LET b == batch_items([w |-> w, results |-> <<>>, errors |-> <<>>],
                                  commands, 0, env)
             IN  IF b.w.reset THEN Return(b.w, NoResp)
                 ELSE Return(b.w, [type |-> "batch_result",
                                   total |-> Len(commands),
                                   success_count |-> Len(b.results),
                                   error_count |-> Len(b.errors),
                                   results |-> b.results,
                                   errors |-> b.errors])

\* handlers[cmd](data).  The handlers of the peripherals and of the file and
\* network services either return their result or raise ValueError, as the
\* hardware decides.
CallHandler(cmd, w, data, env) ==
    CASE cmd = "ping" -> handle_ping(w, data, env)
      [] cmd = "version" -> handle_version(w, data, env)
      [] cmd = "gpio_write" -> handle_gpio_write(w, data, env)
      [] cmd = "reboot" -> handle_reboot(w, data, env)
      [] cmd = "batch" -> handle_batch(w, data, env)
      [] cmd = "binary_start" -> handle_binary_start(w, data, env)
      [] cmd = "binary_end" -> handle_binary_end(w, data, env)
      [] cmd = "ota_start" -> handle_ota_start(w, data, env)
      [] cmd = "ota_chunk" -> handle_ota_chunk(w, data, env)
      [] cmd = "ota_finish" -> handle_ota_finish(w, data, env)
      [] cmd = "ota_abort" -> handle_ota_abort(w, data, env)
      [] OTHER -> IF "device" \in env.faults
                  THEN Raise(w, cmd \o " failed")
                  ELSE Return(w, [type |-> cmd])

(***************************************************************************)
(* Command Dispatcher.                                                     *)
(***************************************************************************)
\* (mutant) a lookup that finds a handler for every name
IsRegistered_Any(cmd) == TRUE

\* handler = self.handlers.get(cmd); if handler:
IsRegistered(cmd) == cmd \in handlers

process_json_command(w, data, env) ==
    IF "command" \notin DOMAIN data THEN send_error(w, "No command specified", env)
    ELSE LET cmd == data.command
         IN  IF IsRegistered(cmd)
             THEN LET r == CallHandler(cmd, w, data, env)
                  IN  IF r.exc # NoExc
                      THEN send_error(r.w, "Handler error: " \o r.exc, env)
                      ELSE IF r.ret # NoResp THEN send_json(r.w, r.ret) ELSE r.w
             ELSE send_error(w, "Unknown command: " \o cmd, env)

(***************************************************************************)
(* Wire text.  One element of a byte sequence stands for one lexical unit *)
(* of the wire text: a line terminator, a blank, the brace that opens a   *)
(* JSON object, the rest of an object up to its closing brace, a word of  *)
(* a plain-text command, a gpio command with its arguments, or a byte     *)
(* that is none of these.                                                  *)
(***************************************************************************)
LF == "\n"
CR == "\r"
SP == " "
LBRACE == "{"
\* a byte that is not valid UTF-8
BadUtf8 == "0xFF"

BinaryStartBody(n) == "binary_start," \o ToString(n) \o "}"

\* The objects ujson.loads yields, by the text that follows the opening brace.
JsonBodies ==
    {"}", "ping}", "nope}", "binary_end}", "reboot}", "ota_finish}",
     "batch,[ping,reboot]}"}
        \cup {BinaryStartBody(n) : n \in 0..(binary_capacity + 1)}

JsonObject(body) ==
    CASE body = "}" -> <<>>
      [] body = "ping}" -> [command |-> "ping"]
      [] body = "nope}" -> [command |-> "nope"]
      [] body = "binary_end}" -> [command |-> "binary_end"]
      [] body = "reboot}" -> [command |-> "reboot"]
      [] body = "ota_finish}" -> [command |-> "ota_finish"]
      [] body = "batch,[ping,reboot]}" ->
            [command |-> "batch",
             commands |-> <<[command |-> "ping"], [command |-> "reboot"]>>]
      [] OTHER -> [command |-> "binary_start",
                   size |-> CHOOSE n \in 0..(binary_capacity + 1) :
                                body = BinaryStartBody(n)]

\* ujson.loads(command) raises ValueError unless the text is one object.
JsonValid(command) == Len(command) = 2 /\ command[2] \in JsonBodies

\* bytes.decode('utf-8') raises on a byte that is not UTF-8
DecodeOk(bytes) == \A i \in 1..Len(bytes) : bytes[i] # BadUtf8

\* str.strip()
RECURSIVE LStrip(_)
LStrip(s) == IF s # <<>> /\ Head(s) = SP THEN LStrip(Tail(s)) ELSE s

RECURSIVE RStrip(_)
RStrip(s) ==
    IF s # <<>> /\ s[Len(s)] = SP THEN RStrip(SubSeq(s, 1, Len(s) - 1)) ELSE s

Strip(s) == RStrip(LStrip(s))

\* str.split()[0].lower(): the first blank-separated word of a stripped text
RECURSIVE FirstWord(_)
FirstWord(s) ==
    IF s = <<>> \/ Head(s) = SP THEN <<>> ELSE <<Head(s)>> \o FirstWord(Tail(s))

(***************************************************************************)
(* Frame Reader.                                                           *)
(***************************************************************************)
send_response(w, message) == [w EXCEPT !.tx = Append(@, [text |-> message])]

\* the words of a unit of wire text that stands for a whole gpio command
UnitWords(word) ==
    CASE word = <<"gpio 2 1">> -> << <<"gpio">>, <<"2">>, <<"1">> >>
      [] word = <<"gpio 99 1">> -> << <<"gpio">>, <<"99">>, <<"1">> >>
      [] word = <<"gpio x 1">> -> << <<"gpio">>, <<"x">>, <<"1">> >>
      [] OTHER -> <<word>>

\* str.split(): the blank-separated words of a text
RECURSIVE Split(_)
Split(s) ==
    IF s = <<>> THEN <<>>
    ELSE IF Head(s) = SP THEN Split(Tail(s))
    ELSE LET word == FirstWord(s)
         IN  UnitWords(word) \o Split(SubSeq(s, Len(word) + 1, Len(s)))

\* int(text) raises ValueError unless the text is a number
IntOk(word) == Len(word) = 1 /\ word[1] \in {"0", "1", "2", "99"}

IntOf(word) ==
    CASE word[1] = "0" -> 0
      [] word[1] = "1" -> 1
      [] word[1] = "2" -> 2
      [] word[1] = "99" -> 99

\* The result is the engine after the command and the exception, if any,
\* that leaves process_text_command.
process_text_command(w, command, env) ==
    LET parts == Split(command)
        cmd == IF parts = <<>> THEN <<>> ELSE parts[1]
    IN  CASE cmd = <<"help">> -> Return(send_response(w, "Available commands"), NoResp)
          [] cmd = <<"version">> -> Return(send_response(w, "MicroPython"), NoResp)
          [] cmd = <<"gpio">> ->
                IF Len(parts) >= 3
                THEN IF ~IntOk(parts[2]) \/ ~IntOk(parts[3])
                     THEN Raise(w, "invalid syntax for integer")
                     ELSE LET r == handle_gpio_write(
                                       w, [pin |-> IntOf(parts[2]),
                                           value |-> IntOf(parts[3])], env)
                          IN  IF r.exc # NoExc THEN r ELSE Return(r.w, NoResp)
                ELSE Return(send_response(w, "Usage: gpio <pin> <0/1>"), NoResp)
          [] cmd = <<"reboot">> -> Return([w EXCEPT !.reset = TRUE], NoResp)
          [] OTHER -> Return(send_error(w, "Unknown command", env), NoResp)

process_buffer(w, env) ==
    IF w.self.buf_pos = 0 THEN w
    ELSE
      LET bytes == [i \in 1..w.self.buf_pos |-> w.self.command_buffer[i - 1]]
      IN  IF ~DecodeOk(bytes)
          THEN [send_error(w, "Processing error", env) EXCEPT !.self.buf_pos = 0]
          ELSE
            LET command == Strip(bytes)
                w1 == [w EXCEPT !.self.buf_pos = 0]
                w2 == [w1 EXCEPT !.self.packet_count = @ + 1]
            IN  IF command = <<>> THEN w1
                ELSE IF Head(command) = LBRACE
                THEN IF JsonValid(command)
                     THEN process_json_command(w2, JsonObject(command[2]), env)
                     ELSE send_error(w2, "Invalid JSON", env)
                ELSE LET r == process_text_command(w2, command, env)
                     IN  IF r.exc # NoExc
                         THEN [send_error(r.w, "Processing error", env)
                                   EXCEPT !.self.buf_pos = 0]
                         ELSE r.w

\* (mutant) a room test that never refuses a byte
HasRoom_Always(buf_pos) == TRUE

\* whether process_data stores a byte that is no terminator
HasRoom(buf_pos) == buf_pos < buffer_size - 1

\* the body of the loop of process_data
process_byte(w, byte, env) ==
    IF byte = LF \/ byte = CR THEN process_buffer(w, env)
    ELSE IF HasRoom(w.self.buf_pos)
    THEN [w EXCEPT !.self.command_buffer[w.self.buf_pos] = byte,
                   !.self.buf_pos = @ + 1,
                   !.self.last_char_time = env.ticks]
    ELSE [send_error(w, "Buffer overflow", env) EXCEPT !.self.buf_pos = 0]

RECURSIVE process_data(_, _, _)
process_data(w, data, env) ==
    IF data = <<>> \/ w.reset THEN w
    ELSE process_data(process_byte(w, Head(data), env), Tail(data), env)

\* (mutant) an inactivity test that waits one tick longer
TimedOut_Late(ticks, last_char_time) == ticks - last_char_time > timeout_ms + 1

\* utime.ticks_ms() - self.last_char_time > self.timeout_ms
TimedOut(ticks, last_char_time) == ticks - last_char_time > timeout_ms

\* one pass of the main loop's webserial.process(); data is what uart.read()
\* returned (<<>>: nothing to read)
process(w, data, env) ==
    LET w1 == IF data = <<>> THEN w
              ELSE IF w.self.binary_mode THEN process_binary_data(w, data, env)
              ELSE process_data(w, data, env)
    IN  IF ~w1.reset /\ ~w1.self.binary_mode /\ w1.self.buf_pos > 0
           /\ TimedOut(env.ticks, w1.self.last_char_time)
        THEN process_buffer(w1, env)
        ELSE w1

(***************************************************************************)
(* The engine after construction, and the environment of one step.        *)
(***************************************************************************)
\* WebSerialESP32.__init__
InitSelf ==
    [buf_pos |-> 0,
     command_buffer |-> [i \in 0..(buffer_size - 1) |-> "0x00"],
     last_char_time |-> 0,
     binary_mode |-> FALSE,
     binary_buffer |-> [i \in 0..(binary_capacity - 1) |-> "0x00"],
     binary_expected |-> 0,
     binary_received |-> 0,
     ota_in_progress |-> FALSE,
     ota_filename |-> None,
     ota_size |-> 0,
     ota_received |-> 0,
     ota_checksum |-> None,
     ota_temp |-> None,
     gpio_pins |-> [p \in {2} |-> [mode |-> "input", value |-> 0]],
     packet_count |-> 0]

\* The files on flash when the engine starts: the installed main.py, with or
\* without the backup an earlier update left.
InitFiles ==
    {[p \in {"main.py"} |-> <<0>>],
     [p \in {"main.py", "main.py.bak"} |-> IF p = "main.py" THEN <<0>> ELSE <<1>>]}

\* What the environment decides during one step: the storage calls that
\* fail, the value of gc.mem_free() and the value of utime.ticks_ms().
Env(faults, free_mem) == [faults |-> faults, free_mem |-> free_mem, ticks |-> now]

FreeMems == {2, 100}

World == [self |-> self, fs |-> fs, tx |-> <<>>, reset |-> FALSE]

InitEngine ==
    /\ self = InitSelf
    /\ uart_rx = <<>>
    /\ uart_tx = <<>>
    /\ now = 0
    /\ rxlog = <<>>
    /\ txlog = <<>>
    /\ host = [sent |-> 0, phase |-> "free", size |-> 0, raw |-> <<>>]

Init == InitEngine /\ fs \in InitFiles

\* The serial channel is checked on a device whose flash holds main.py only.
InitIO == InitEngine /\ fs = [p \in {"main.py"} |-> <<0>>]

(***************************************************************************)
(* The OTA sub-protocol: each step is one JSON command object handed to   *)
(* the dispatcher.                                                         *)
(***************************************************************************)
Filenames == {"main.py"}
Checksums == {None, "", "d1"}
ChunkBytes == {1}

\* The sets of at most MaxFaults of the storage calls in `points'.
Faults(points) == {F \in SUBSET points : Cardinality(F) <= MaxFaults}

OptField(d, k, v) == IF v = None THEN d ELSE With(d, k, v)

OtaStartData ==
    {OptField(OptField([command |-> "ota_start", size |-> n], "filename", f),
              "checksum", c) :
        n \in 0..MaxSize, f \in Filenames, c \in Checksums}

ChunkLists ==
    UNION {[1..n -> ChunkBytes] : n \in 0..MaxChunk} \cup {<<256>>}

OtaChunkData ==
    {[command |-> "ota_chunk", data |-> d] : d \in ChunkLists}
        \cup {[command |-> "ota_chunk", data |-> d, offset |-> 0] : d \in ChunkLists}

\* The temp artifact stays within MaxFileLen bytes.
ChunkFits(d) ==
    (self.ota_in_progress /\ self.ota_temp \in DOMAIN fs)
        => Len(fs[self.ota_temp]) + Len(d) <= MaxFileLen

\* One command object handed to the dispatcher; a reset restarts the engine.
Command(data, env) ==
    LET w == process_json_command(World, data, env)
    IN  /\ self' = IF w.reset THEN InitSelf ELSE w.self
        /\ fs' = w.fs
        /\ uart_tx' = w.tx
        /\ UNCHANGED <<uart_rx, now, rxlog, txlog, host>>

OtaStart ==
    \E data \in OtaStartData, faults \in Faults({"start.remove", "start.open"}),
       free_mem \in FreeMems :
        Command(data, Env(faults, free_mem))

OtaChunk ==
    \E data \in OtaChunkData, faults \in Faults({"chunk.write"}) :
        /\ ChunkFits(data.data)
        /\ Command(data, Env(faults, 100))

OtaFinish ==
    \E faults \in Faults({"finish.stat", "finish.read", "finish.remove_bak",
                          "finish.rename_bak", "finish.rename_tmp", "finish.cleanup"}) :
        Command([command |-> "ota_finish"], Env(faults, 100))

OtaAbort ==
    \E faults \in Faults({"abort.remove"}) :
        Command([command |-> "ota_abort"], Env(faults, 100))

NextOta == OtaStart \/ OtaChunk \/ OtaFinish \/ OtaAbort

SpecOta == Init /\ [][NextOta]_vars

(***************************************************************************)
(* The serial channel: the host writes frames and raw bytes, the main     *)
(* loop polls (reading any prefix of what has arrived, so that every      *)
(* split of the byte stream into read chunks occurs) and time passes.     *)
(***************************************************************************)
Frame(body) == <<LBRACE, body, LF>>

\* What the host writes at once: a command frame or one raw byte.
HostWrites ==
    {Frame(BinaryStartBody(n)) : n \in 0..(binary_capacity + 1)}
        \cup {Frame("binary_end}"), <<"a">>, <<LF>>}

HostSend ==
    \E f \in HostWrites :
        /\ host.sent + Len(f) <= MaxSent
        /\ uart_rx' = uart_rx \o f
        /\ host' = [host EXCEPT !.sent = @ + Len(f)]
        /\ UNCHANGED <<self, fs, uart_tx, now, rxlog, txlog>>

\* a response as txlog keeps it: without the tick value it carries
Untimed(r) == IF "timestamp" \in DOMAIN r THEN [r EXCEPT !.timestamp = 0] ELSE r

\* one pass of the loop of main(), webserial.process(), in which uart.read()
\* returns the first k bytes that arrived
PollRead(k) ==
    LET data == SubSeq(uart_rx, 1, k)
        w == process(World, data, Env({}, 100))
    IN  /\ self' = IF w.reset THEN InitSelf ELSE w.self
        /\ fs' = w.fs
        /\ uart_tx' = w.tx
        /\ uart_rx' = SubSeq(uart_rx, k + 1, Len(uart_rx))
        /\ rxlog' = rxlog \o data
        /\ txlog' = txlog \o [i \in 1..Len(w.tx) |-> Untimed(w.tx[i])]
        /\ UNCHANGED <<now, host>>

Poll == \E k \in 0..Len(uart_rx) : PollRead(k)

\* utime.ticks_ms() advances
Tick ==
    /\ now' = (now + 1) % TicksPeriod
    /\ UNCHANGED <<self, fs, uart_rx, uart_tx, rxlog, txlog, host>>

NextIO == HostSend \/ Poll \/ Tick

SpecIO == InitIO /\ [][NextIO]_vars

(***************************************************************************)
(* Lines on the serial channel: the host writes whole lines, JSON frames  *)
(* and plain-text commands, and the main loop polls.                       *)
(***************************************************************************)
MaxLines == 2

\* a line longer than the InputBuffer takes, without its terminator
LongLine == [i \in 1..buffer_size |-> "a"]

JsonLines ==
    {Frame(b) : b \in {"}", "ping}", "nope}", "binary_end}", "reboot}", "ota_finish}",
                       "batch,[ping,reboot]}"}}
        \cup {<<LBRACE, "bad", LF>>}

TextLines ==
    {<<"help", LF>>, <<"version", LF>>, <<"reboot", LF>>, <<"nope", LF>>,
     <<"gpio 2 1", LF>>, <<"gpio 99 1", LF>>, <<"gpio x 1", LF>>, <<"gpio", LF>>,
     <<SP, "help", SP, LF>>, <<BadUtf8, LF>>}

HostLine ==
    /\ host.sent < MaxLines
    /\ \E line \in JsonLines \cup TextLines \cup {LongLine} :
          uart_rx' = uart_rx \o line
    /\ host' = [host EXCEPT !.sent = @ + 1]
    /\ UNCHANGED <<self, fs, uart_tx, now, rxlog, txlog>>

NextLines == HostLine \/ Poll

SpecLines == InitIO /\ [][NextLines]_vars

(***************************************************************************)
(* The dispatcher and the binary transfer engine as operations: command   *)
(* objects are handed to process_json_command and, while binary mode is   *)
(* active, byte strings to process_binary_data, in any order.             *)
(***************************************************************************)
\* whether the handlers of the peripherals raise
DeviceFaults == {{}, {"device"}}

CmdMenu ==
    {<<>>, [size |-> 1], [command |-> "nope"], [command |-> ""], [command |-> "ping"],
     [command |-> "binary_start"], [command |-> "binary_end"],
     [command |-> "file_read"], [command |-> "ota_finish"]}
        \cup {[command |-> "binary_start", size |-> n] : n \in -1..(binary_capacity + 1)}

CmdStep ==
    \E data \in CmdMenu, F \in DeviceFaults : Command(data, Env(F, 100))

BinaryChunks == UNION {[1..n -> {"a", "b"}] : n \in 1..(binary_capacity + 1)}

BinaryData ==
    /\ self.binary_mode
    /\ \E data \in BinaryChunks :
          LET w == process_binary_data(World, data, Env({}, 100))
          IN  /\ self' = w.self
              /\ uart_tx' = w.tx
    /\ UNCHANGED <<fs, uart_rx, now, rxlog, txlog, host>>

NextCmd == CmdStep \/ BinaryData

SpecCmd == InitIO /\ [][NextCmd]_vars

(***************************************************************************)
(* One batch command: the request is drawn when the run starts, the       *)
(* engine may have served one other command before, and the batch is      *)
(* dispatched once.                                                        *)
(***************************************************************************)
MaxBatch == 3

BatchItems ==
    {[command |-> "ping"], [command |-> "nope"], <<>>,
     [command |-> "batch", commands |-> <<[command |-> "binary_start", size |-> 1]>>],
     [command |-> "binary_start", size |-> 1],
     [command |-> "binary_end"],
     [command |-> "file_read"],
     [command |-> "reboot"]}

BatchLists == UNION {[1..n -> BatchItems] : n \in 0..MaxBatch}

BatchRequests ==
    {[command |-> "batch", commands |-> l] : l \in BatchLists} \cup {[command |-> "batch"]}

InitBatch ==
    /\ self = InitSelf
    /\ fs = [p \in {"main.py"} |-> <<0>>]
    /\ uart_rx = <<>>
    /\ uart_tx = <<>>
    /\ now = 0
    /\ rxlog = <<>>
    /\ txlog = <<>>
    /\ \E req \in BatchRequests, F \in DeviceFaults :
          host = [sent |-> 0, phase |-> "pending", size |-> 0, raw |-> <<>>,
                  req |-> req, faults |-> F]

\* a command served before the batch
BatchPrelude ==
    /\ host.phase = "pending" /\ host.sent = 0
    /\ \E data \in {[command |-> "binary_start", size |-> 1], [command |-> "ping"]} :
          LET w == process_json_command(World, data, Env({}, 100))
          IN  /\ self' = w.self
              /\ uart_tx' = w.tx
    /\ host' = [host EXCEPT !.sent = 1]
    /\ UNCHANGED <<fs, uart_rx, now, rxlog, txlog>>

BatchRun ==
    /\ host.phase = "pending"
    /\ LET w == process_json_command(World, host.req, Env(host.faults, 100))
       IN  /\ self' = IF w.reset THEN InitSelf ELSE w.self
           /\ fs' = w.fs
           /\ uart_tx' = w.tx
    /\ host' = [host EXCEPT !.phase = "done"]
    /\ UNCHANGED <<uart_rx, now, rxlog, txlog>>

NextBatch == BatchPrelude \/ BatchRun

SpecBatch == InitBatch /\ [][NextBatch]_vars

(***************************************************************************)
(* The binary sub-protocol as the host runs it: a binary_start frame,     *)
(* then, once binary_ready has arrived, the raw bytes, then a binary_end  *)
(* frame.  The main loop never stops polling and time never stops.        *)
(***************************************************************************)
RawBytes == {"a", LF}

HostBinaryStart ==
    /\ host.phase = "free"
    /\ \E n \in 1..binary_capacity :
          /\ uart_rx' = uart_rx \o Frame(BinaryStartBody(n))
          /\ host' = [host EXCEPT !.phase = "started", !.size = n,
                                  !.sent = @ + Len(Frame(BinaryStartBody(n)))]
    /\ UNCHANGED <<self, fs, uart_tx, now, rxlog, txlog>>

HostBinaryRaw ==
    /\ host.phase = "started"
    /\ \E i \in 1..Len(txlog) :
          txlog[i] = [type |-> "binary_ready", expected_size |-> host.size]
    /\ \E bytes \in [1..host.size -> RawBytes] :
          /\ uart_rx' = uart_rx \o bytes
          /\ host' = [host EXCEPT !.phase = "raw", !.raw = bytes,
                                  !.sent = @ + Len(bytes)]
    /\ UNCHANGED <<self, fs, uart_tx, now, rxlog, txlog>>

HostBinaryEnd ==
    /\ host.phase = "raw"
    /\ uart_rx' = uart_rx \o Frame("binary_end}")
    /\ host' = [host EXCEPT !.phase = "ended", !.sent = @ + Len(Frame("binary_end}"))]
    /\ UNCHANGED <<self, fs, uart_tx, now, rxlog, txlog>>

NextBin == HostBinaryStart \/ HostBinaryRaw \/ HostBinaryEnd \/ Poll \/ Tick

\* main() calls webserial.process() in a loop that never ends, and the tick
\* counter keeps counting.
SpecBin == InitIO /\ [][NextBin]_vars /\ WF_vars(Poll) /\ WF_vars(Tick)

(***************************************************************************)
(* Updates of more than one file: the OTA commands with the file name the *)
(* host chooses, on a flash that never fails.                              *)
(***************************************************************************)
UpdateFiles == {"main.py", "lib.py"}

FileStartData ==
    {OptField([command |-> "ota_start", filename |-> f, size |-> n], "checksum", c) :
        f \in UpdateFiles, n \in 1..MaxSize, c \in {None, "d1"}}

FileStart == \E data \in FileStartData : Command(data, Env({}, 100))

FileChunk ==
    \E d \in ChunkBytes :
        /\ ChunkFits(<<d>>)
        /\ Command([command |-> "ota_chunk", data |-> <<d>>], Env({}, 100))

FileFinish == Command([command |-> "ota_finish"], Env({}, 100))

FileAbort == Command([command |-> "ota_abort"], Env({}, 100))

NextFiles == FileStart \/ FileChunk \/ FileFinish \/ FileAbort

SpecFiles == InitIO /\ [][NextFiles]_vars

(***************************************************************************)
(* Observations used by the properties.                                    *)
(***************************************************************************)
\* the response a step wrote is of type t
IsType(tx, t) == tx # <<>> /\ Get(tx[Len(tx)], "type", None) = t

\* the message of the error response a step wrote (None: no error response)
ErrorMsg(tx) ==
    IF IsType(tx, "error") THEN tx[Len(tx)].message ELSE None

\* path p holds the same file (or no file) before and after the step
SameFile(p) ==
    /\ p \in DOMAIN fs <=> p \in DOMAIN fs'
    /\ p \in DOMAIN fs => fs'[p] = fs[p]

\* the step put a file at a target path, or changed the file there
TargetWritten ==
    \E p \in Filenames : p \in DOMAIN fs' /\ (p \notin DOMAIN fs \/ fs'[p] # fs[p])

\* the session validates: all declared bytes received and, with a checksum,
\* the digest of the temp artifact equal to it
Validated ==
    /\ self.ota_in_progress
    /\ self.ota_received = self.ota_size
    /\ Truthy(self.ota_checksum) =>
          /\ self.ota_temp \in DOMAIN fs
          /\ Md5Hex(fs[self.ota_temp]) = self.ota_checksum

FinishFaults ==
    Faults({"finish.stat", "finish.read", "finish.remove_bak",
            "finish.rename_bak", "finish.rename_tmp", "finish.cleanup"})

\* the step is ota_finish with the storage calls in F failing
FinishStep(F) == Command([command |-> "ota_finish"], Env(F, 100))

SizeMismatchMsg == "Handler error: OTA finish failed: Size mismatch"
ChecksumMismatchMsg == "Handler error: OTA finish failed: Checksum mismatch"
FinishOSErrorMsg == "Handler error: OTA finish failed: OSError"
NoSessionMsg == "Handler error: No OTA in progress"

\* the temp artifact is gone after the step unless its removal itself failed
TempRemovedIfPossible ==
    \A F \in FinishFaults :
        (FinishStep(F) /\ "finish.cleanup" \notin F) => self.ota_temp \notin DOMAIN fs'

(***************************************************************************)
(* C1: ota_finish answers ota_complete, and a file is put at the target   *)
(* path, only in a step that starts with a session whose received_size    *)
(* equals expected_size and whose checksum, when one was given, equals    *)
(* the digest of the temp artifact.                                       *)
(***************************************************************************)
C1_FinishOnlyIfValidated ==
    [][(IsType(uart_tx', "ota_complete") \/ TargetWritten) => Validated]_vars

C1_Witness ==
    /\ IsType(uart_tx, "ota_complete")
    /\ Truthy(self.ota_checksum)
    /\ self.ota_received = self.ota_size
    /\ "main.py" \in DOMAIN fs /\ Len(fs["main.py"]) = self.ota_size

(***************************************************************************)
(* C2 as stated: when ota_finish reports a size or checksum mismatch, the *)
(* target file and its backup are as before, the temp artifact does not   *)
(* exist and the session is idle.                                         *)
(***************************************************************************)
C2_MismatchLeavesNoTemp ==
    [][ErrorMsg(uart_tx') \in {SizeMismatchMsg, ChecksumMismatchMsg} =>
          /\ SameFile(self.ota_filename)
          /\ SameFile(self.ota_filename \o ".bak")
          /\ self.ota_temp \notin DOMAIN fs'
          /\ ~self'.ota_in_progress]_vars

(***************************************************************************)
(* C2 amended: when ota_finish reports a size or checksum mismatch, the   *)
(* target file and its backup are as before, the session is idle, and the *)
(* temp artifact does not exist unless its removal itself failed.         *)
(***************************************************************************)
C2_MismatchCleansUp ==
    [][ErrorMsg(uart_tx') \in {SizeMismatchMsg, ChecksumMismatchMsg} =>
          /\ SameFile(self.ota_filename)
          /\ SameFile(self.ota_filename \o ".bak")
          /\ TempRemovedIfPossible
          /\ ~self'.ota_in_progress]_vars

C2_Witness ==
    /\ ErrorMsg(uart_tx) = ChecksumMismatchMsg
    /\ ~self.ota_in_progress
    /\ self.ota_received = self.ota_size
    /\ self.ota_temp \notin DOMAIN fs
    /\ "main.py" \in DOMAIN fs /\ "main.py.bak" \in DOMAIN fs

(***************************************************************************)
(* C3: an ota_finish that starts with a session and reports an error      *)
(* (size mismatch, checksum mismatch, a storage call that raised) leaves  *)
(* the session idle and the temp artifact removed unless the removal      *)
(* itself failed; and in every idle state ota_chunk and ota_finish are    *)
(* answered "No OTA in progress" and change nothing.                      *)
(***************************************************************************)
RejectedWhenIdle ==
    ~self.ota_in_progress =>
        \A data \in OtaChunkData \cup {[command |-> "ota_finish"]} :
            LET w == process_json_command(World, data, Env({}, 100))
            IN  /\ ErrorMsg(w.tx) = NoSessionMsg
                /\ w.self = self
                /\ w.fs = fs

C3_FailedFinishIsIdle ==
    /\ [][(self.ota_in_progress
              /\ ErrorMsg(uart_tx') \in
                    {SizeMismatchMsg, ChecksumMismatchMsg, FinishOSErrorMsg}) =>
            (~self'.ota_in_progress /\ TempRemovedIfPossible)]_vars
    /\ []RejectedWhenIdle

C3_Witness ==
    /\ ErrorMsg(uart_tx) = FinishOSErrorMsg
    /\ ~self.ota_in_progress
    /\ self.ota_temp \notin DOMAIN fs
    /\ "main.py" \notin DOMAIN fs

(***************************************************************************)
(* C4 as stated: an ota_start issued while a session is in progress       *)
(* starts no new session and leaves the session's filename, expected      *)
(* size, received size, checksum and temp artifact as they were.          *)
(***************************************************************************)
StartAnswered ==
    \/ IsType(uart_tx', "ota_ready")
    \/ ErrorMsg(uart_tx') \in {"Handler error: Invalid file size",
                               "Handler error: File too large",
                               "Handler error: Failed to start OTA"}

C4_StartOnlyFromIdle ==
    [][(self.ota_in_progress /\ StartAnswered) =>
          /\ ~IsType(uart_tx', "ota_ready")
          /\ self'.ota_in_progress
          /\ self'.ota_filename = self.ota_filename
          /\ self'.ota_size = self.ota_size
          /\ self'.ota_received = self.ota_received
          /\ self'.ota_checksum = self.ota_checksum
          /\ SameFile(self.ota_temp)]_vars

(***************************************************************************)
(* C5 as stated: in every reachable state received_size <= expected_size. *)
(***************************************************************************)
C5_ReceivedAtMostExpected == self.ota_received <= self.ota_size

(***************************************************************************)
(* C6 as stated: while binary mode is active every incoming byte goes to  *)
(* the binary transfer engine: in no pass of the loop, however the byte   *)
(* stream is split into reads, does process_data handle a byte (append it *)
(* to the InputBuffer or dispatch a frame on it) with binary_mode set.    *)
(***************************************************************************)
\* process_data handles a byte of data while binary_mode is set
RECURSIVE TextByteInBinaryMode(_, _, _)
TextByteInBinaryMode(w, data, env) ==
    /\ data # <<>>
    /\ ~w.reset
    /\ \/ w.self.binary_mode
       \/ TextByteInBinaryMode(process_byte(w, Head(data), env), Tail(data), env)

C6_BinaryModeDivertsEveryByte ==
    [][\A k \in 1..Len(uart_rx) :
          (PollRead(k) /\ ~self.binary_mode) =>
              ~TextByteInBinaryMode(World, SubSeq(uart_rx, 1, k), Env({}, 100))]_vars

(***************************************************************************)
(* C7 as stated: once the host has had binary_start{size:N} acknowledged, *)
(* has sent N raw bytes and then a binary_end frame, the engine           *)
(* eventually answers binary_complete with size N and those N bytes and   *)
(* is back in text mode.                                                   *)
(***************************************************************************)
BinaryCompleted ==
    /\ ~self.binary_mode
    /\ \E i \in 1..Len(txlog) :
          txlog[i] = [type |-> "binary_complete", size |-> host.size, data |-> host.raw]

C7_BinaryProtocolCompletes == (host.phase = "ended") ~> BinaryCompleted

(***************************************************************************)
(* C8: in every reachable state binary_received <= binary_expected <=     *)
(* capacity; and a read that arrives in binary mode stores its bytes in   *)
(* arrival order only while received < expected: the bytes after that     *)
(* change neither the capture buffer nor the received count.              *)
(***************************************************************************)
Min(a, b) == IF a < b THEN a ELSE b

BinaryBounded ==
    /\ 0 <= self.binary_received
    /\ self.binary_received <= self.binary_expected
    /\ self.binary_expected <= binary_capacity

BinaryStoresUpToExpected ==
    \A k \in 1..Len(uart_rx) :
        (self.binary_mode /\ PollRead(k)) =>
            LET taken == Min(k, self.binary_expected - self.binary_received)
            IN  /\ self'.binary_received = self.binary_received + taken
                /\ \A i \in 0..(binary_capacity - 1) :
                      self'.binary_buffer[i] =
                          IF i >= self.binary_received /\ i < self.binary_received + taken
                          THEN uart_rx[i - self.binary_received + 1]
                          ELSE self.binary_buffer[i]

C8_BinaryReceivedBounded ==
    []BinaryBounded /\ [][BinaryStoresUpToExpected]_vars

C8_Witness ==
    /\ rxlog = Frame(BinaryStartBody(1)) \o <<"a", LF>>
    /\ self.binary_mode
    /\ self.binary_expected = 1 /\ self.binary_received = 1
    /\ self.binary_buffer[0] = "a"
    /\ self.buf_pos = 0

(***************************************************************************)
(* C9: in every reachable state the InputBuffer cursor is <= capacity;    *)
(* a byte that is no terminator, read in text mode, is either stored at   *)
(* the cursor, leaving the bytes before it as they were, or answered with *)
(* a "Buffer overflow" error that leaves the cursor at zero.              *)
(***************************************************************************)
ByteStored ==
    /\ self'.buf_pos = self.buf_pos + 1
    /\ self.buf_pos \in DOMAIN self'.command_buffer
    /\ self'.command_buffer[self.buf_pos] = Head(uart_rx)
    /\ \A i \in 0..(self.buf_pos - 1) : self'.command_buffer[i] = self.command_buffer[i]
    /\ uart_tx' = <<>>

ByteOverflowed ==
    /\ self'.buf_pos = 0
    /\ Len(uart_tx') = 1
    /\ ErrorMsg(uart_tx') = "Buffer overflow"
    /\ self'.command_buffer = self.command_buffer
    /\ self'.packet_count = self.packet_count

C9_CursorBounded ==
    /\ [](self.buf_pos >= 0 /\ self.buf_pos <= buffer_size)
    /\ [][(~self.binary_mode /\ uart_rx # <<>> /\ Head(uart_rx) \notin {LF, CR}
              /\ PollRead(1)) => (ByteStored \/ ByteOverflowed)]_vars

C9_Witness ==
    /\ rxlog = [i \in 1..buffer_size |-> "a"]
    /\ ErrorMsg(uart_tx) = "Buffer overflow"
    /\ self.buf_pos = 0
    /\ self.packet_count = 0

(***************************************************************************)
(* C10 as stated: after capacity + 1 bytes that are no terminators have   *)
(* been fed to a fresh engine, a "Buffer overflow" error has been         *)
(* answered, the cursor is 0 and no frame has been or is later emitted.   *)
(***************************************************************************)
C10_OverflowDropsFrame ==
    rxlog = [i \in 1..(buffer_size + 1) |-> "a"] =>
        /\ \E i \in 1..Len(txlog) :
              txlog[i].type = "error" /\ txlog[i].message = "Buffer overflow"
        /\ self.buf_pos = 0
        /\ self.packet_count = 0

(***************************************************************************)
(* Batch: what each item of a list does, told item by item.                *)
(***************************************************************************)
\* item names a registered command other than batch
ItemRuns(item) ==
    /\ "command" \in DOMAIN item
    /\ item.command \in handlers
    /\ item.command # "batch"

\* the engine before item k (counted from 0) of the list
RECURSIVE WorldBefore(_, _, _, _)
WorldBefore(w, commands, k, env) ==
    IF k = 0 THEN w
    ELSE LET before == WorldBefore(w, commands, k - 1, env)
             item == commands[k]
         IN  IF ItemRuns(item) THEN CallHandler(item.command, before, item, env).w
             ELSE before

\* item k fails: missing command, unregistered command, nested batch or an
\* exception of its handler
ItemFails(w, commands, k, env) ==
    LET item == commands[k + 1]
    IN  \/ ~ItemRuns(item)
        \/ CallHandler(item.command, WorldBefore(w, commands, k, env), item, env).exc # NoExc

ItemResult(w, commands, k, env) ==
    LET item == commands[k + 1]
    IN  CallHandler(item.command, WorldBefore(w, commands, k, env), item, env).ret

IndexCount(entries, k) == Cardinality({j \in 1..Len(entries) : entries[j].index = k})

\* the response r is the batch result the list calls for
BatchResultFor(r, w, commands, env) ==
    /\ Get(r, "type", None) = "batch_result"
    /\ r.total = Len(commands)
    /\ r.success_count = Len(r.results)
    /\ r.error_count = Len(r.errors)
    /\ r.success_count + r.error_count = Len(commands)
    /\ \A k \in 0..(Len(commands) - 1) :
          IF ItemFails(w, commands, k, env)
          THEN IndexCount(r.errors, k) = 1 /\ IndexCount(r.results, k) = 0
          ELSE /\ IndexCount(r.errors, k) = 0
               /\ IndexCount(r.results, k) = 1
               /\ \E j \in 1..Len(r.results) :
                     r.results[j] = [index |-> k,
                                     result |-> ItemResult(w, commands, k, env)]

HasReboot(commands) == \E j \in 1..Len(commands) : Get(commands[j], "command", None) = "reboot"

NonEmptyBatch == "commands" \in DOMAIN host.req /\ host.req.commands # <<>>

BatchRan == host.phase = "pending" /\ host'.phase = "done"

(***************************************************************************)
(* C11 as stated: every non-empty batch of N items is answered by a batch *)
(* result with total = N and success_count + error_count = N, in which    *)
(* every failing item k is in errors with index k and every other item is *)
(* in results with its index and the result its handler returned.         *)
(***************************************************************************)
C11_BatchAccountsForEveryItem ==
    [][(BatchRan /\ NonEmptyBatch) =>
          /\ uart_tx' # <<>>
          /\ BatchResultFor(uart_tx'[Len(uart_tx')], World, host.req.commands,
                            Env(host.faults, 100))]_vars

(***************************************************************************)
(* C11 amended: the same for every non-empty batch without a reboot item; *)
(* a batch with a reboot item sends the reboot acknowledgement, resets    *)
(* the device and sends no batch result.                                   *)
(***************************************************************************)
C11_BatchWithoutRebootAccounts ==
    [][(BatchRan /\ NonEmptyBatch) =>
          IF HasReboot(host.req.commands)
          THEN /\ uart_tx' = <<[type |-> "reboot", message |-> "Rebooting..."]>>
               /\ self' = InitSelf
          ELSE /\ Len(uart_tx') = 1
               /\ BatchResultFor(uart_tx'[1], World, host.req.commands,
                                 Env(host.faults, 100))]_vars

C11_Witness ==
    /\ host.phase = "done"
    /\ NonEmptyBatch
    /\ host.req.commands = <<[command |-> "ping"], [command |-> "nope"], [command |-> "ping"]>>
    /\ Len(uart_tx) = 1
    /\ uart_tx[1].type = "batch_result"
    /\ uart_tx[1].total = 3
    /\ uart_tx[1].success_count = 2
    /\ uart_tx[1].error_count = 1
    /\ uart_tx[1].errors = <<[index |-> 1, error |-> "Unknown command: nope"]>>

(***************************************************************************)
(* C12: a batch item whose command is batch is rejected wherever it       *)
(* stands in the list: the batch result holds one error with the item's   *)
(* index and the text "Nested batch not allowed" and no result for it,    *)
(* the nested list is not run (the engine ends as the other items leave   *)
(* it), and every item before and after it that names a registered        *)
(* command has its own entry.  When a reboot item follows, the reset      *)
(* shows that the items after it were run.                                 *)
(***************************************************************************)
IsNested(item) == Get(item, "command", None) = "batch"

NoRebootBefore(commands, k) ==
    \A j \in 1..k : Get(commands[j], "command", None) # "reboot"

NestedRejectedAt(r, w, commands, k, env) ==
    /\ Get(r, "type", None) = "batch_result"
    /\ IndexCount(r.results, k) = 0
    /\ IndexCount(r.errors, k) = 1
    /\ \E j \in 1..Len(r.errors) :
          r.errors[j] = [index |-> k, error |-> "Nested batch not allowed"]
    /\ \A j \in 0..(Len(commands) - 1) :
          (j # k /\ ItemRuns(commands[j + 1])) =>
              IndexCount(r.errors, j) + IndexCount(r.results, j) = 1

ErrorLines ==
    {<<LBRACE, "bad", LF>>, Frame("}"), Frame("nope}"), Frame("ota_finish}"),
     Frame("binary_end}"), <<"nope", LF>>, LongLine}

FollowingFrames ==
    {Frame("ping}"), <<"help", LF>>, <<"gpio 2 1", LF>>}

\* the frames the engine dispatches out of an error line and a frame: the
\* long line overflows before any terminator arrives
FramesIn(e) == IF e = LongLine THEN 1 ELSE 2

C13_ErrorsAreNotFatal ==
    \A e \in ErrorLines, f \in FollowingFrames :
        rxlog = e \o f =>
            /\ ENABLED Poll
            /\ self.buf_pos = 0
            /\ self.packet_count = FramesIn(e)
            /\ Len(txlog) >= 2
            /\ txlog[1].type = "error"

(***************************************************************************)
(* C14 as stated: every response the engine writes, for JSON commands and *)
(* for plain-text commands alike, is a JSON object with a type field, and *)
(* every response of type error has a message and a timestamp.            *)
(***************************************************************************)
IsJsonResponse(r) ==
    /\ "type" \in DOMAIN r
    /\ r.type = "error" => ("message" \in DOMAIN r /\ "timestamp" \in DOMAIN r)

C14_ResponsesAreTypedJson ==
    \A i \in 1..Len(txlog) : IsJsonResponse(txlog[i])

(***************************************************************************)
(* C15 as stated: on every path that reaches the device reset (JSON       *)
(* reboot, plain-text reboot, reboot as a batch item) the reboot          *)
(* acknowledgement is the last response written before the reset.         *)
(***************************************************************************)
RebootAck == [type |-> "reboot", message |-> "Rebooting..."]

C15_AckPrecedesReset ==
    [][\A k \in 1..Len(uart_rx) :
          (PollRead(k) /\ process(World, SubSeq(uart_rx, 1, k), Env({}, 100)).reset) =>
              (uart_tx' # <<>> /\ uart_tx'[Len(uart_tx')] = RebootAck)]_vars

(***************************************************************************)
(* C16: for a JSON object handed to the dispatcher, a handler runs if and *)
(* only if the object has a command field that names a registered        *)
(* command; without the field the answer is the one error "No command     *)
(* specified", with an unregistered name it is the one error "Unknown     *)
(* command: <name>", and in both cases the engine (binary, OTA and        *)
(* InputBuffer state) and the storage are as before.  With a registered   *)
(* name the engine and the answer are those of the handler.               *)
(***************************************************************************)
OneError(tx, message) ==
    tx = <<[type |-> "error", message |-> message, timestamp |-> now]>>

DispatchedAsSpecified(data, env) ==
    LET w == process_json_command(World, data, env)
    IN  IF "command" \notin DOMAIN data
        THEN OneError(w.tx, "No command specified") /\ w.self = self /\ w.fs = fs /\ ~w.reset
        ELSE IF data.command \notin handlers
        THEN /\ OneError(w.tx, "Unknown command: " \o data.command)
             /\ w.self = self /\ w.fs = fs /\ ~w.reset
        ELSE LET r == CallHandler(data.command, World, data, env)
             IN  /\ w.self = r.w.self /\ w.fs = r.w.fs
                 /\ w.tx = IF r.exc # NoExc
                           THEN <<[type |-> "error", message |-> "Handler error: " \o r.exc,
                                   timestamp |-> now]>>
                           ELSE IF r.ret # NoResp THEN <<r.ret>> ELSE r.w.tx

C16_HandlerIffRegistered ==
    \A data \in CmdMenu, F \in DeviceFaults : DispatchedAsSpecified(data, Env(F, 100))

C16_Witness ==
    /\ OneError(uart_tx, "Unknown command: nope")
    /\ self.binary_mode
    /\ self.binary_received = 1
    /\ self.binary_buffer[0] = "b"

(***************************************************************************)
(* C17 as stated: after a successful ota_finish the target holds exactly  *)
(* the bytes of the temp artifact, the temp artifact is gone, the backup  *)
(* <filename>.bak holds the file that was at the target before the call   *)
(* when there was one, the session is idle, and reboot_required is true   *)
(* exactly when the filename is main.py or boot.py.                        *)
(***************************************************************************)
FinishSucceeded == IsType(uart_tx', "ota_complete")

C17_FinishInstallsAndBacksUp ==
    [][\A F \in FinishFaults :
          (FinishStep(F) /\ FinishSucceeded) =>
              LET target == self.ota_filename
                  backup == target \o ".bak"
              IN  /\ target \in DOMAIN fs' /\ fs'[target] = fs[self.ota_temp]
                  /\ self.ota_temp \notin DOMAIN fs'
                  /\ target \in DOMAIN fs =>
                        (backup \in DOMAIN fs' /\ fs'[backup] = fs[target])
                  /\ ~self'.ota_in_progress
                  /\ uart_tx'[Len(uart_tx')].reboot_required
                        = (target \in {"main.py", "boot.py"})]_vars

(***************************************************************************)
(* C18 as stated: ota_abort succeeds from every state; afterwards the     *)
(* session is idle, the temp artifact of the aborted session does not     *)
(* exist, the target file and its backup are unchanged, and a second      *)
(* ota_abort gives the same state.                                         *)
(***************************************************************************)
AbortStep(F) == Command([command |-> "ota_abort"], Env(F, 100))

SessionIdle(s) ==
    /\ ~s.ota_in_progress
    /\ s.ota_filename = None
    /\ s.ota_size = 0
    /\ s.ota_received = 0

AbortedCleanly ==
    /\ uart_tx' = <<[type |-> "ota_aborted", success |-> TRUE]>>
    /\ SessionIdle(self')
    /\ \A p \in Filenames : SameFile(p) /\ SameFile(p \o ".bak")
    /\ LET again == handle_ota_abort([self |-> self', fs |-> fs', tx |-> <<>>,
                                      reset |-> FALSE],
                                     [command |-> "ota_abort"], Env({}, 100))
       IN  again.exc = NoExc /\ again.w.self = self' /\ again.w.fs = fs'

C18_AbortRemovesTemp ==
    [][\A F \in Faults({"abort.remove"}) :
          AbortStep(F) =>
              /\ AbortedCleanly
              /\ self.ota_in_progress => self.ota_temp \notin DOMAIN fs']_vars

(***************************************************************************)
(* C18 amended: the same, with the temp artifact of the aborted session   *)
(* gone unless its removal fails; the abort succeeds and the session is   *)
(* idle also then.                                                         *)
(***************************************************************************)
C18_AbortRemovesTempIfPossible ==
    [][\A F \in Faults({"abort.remove"}) :
          AbortStep(F) =>
              /\ AbortedCleanly
              /\ (self.ota_in_progress /\ "abort.remove" \notin F)
                    => self.ota_temp \notin DOMAIN fs']_vars

C18_Witness ==
    /\ uart_tx = <<[type |-> "ota_aborted", success |-> TRUE]>>
    /\ SessionIdle(self)
    /\ self.ota_temp = "main.py.tmp"
    /\ "main.py.tmp" \notin DOMAIN fs
    /\ fs["main.py"] = <<0>>
    /\ "main.py.bak" \in DOMAIN fs /\ fs["main.py.bak"] = <<1>>

(***************************************************************************)
(* C19: binary_start(size) succeeds exactly when 0 < size <= capacity; on *)
(* success binary mode is active, expected = size, received = 0 and the   *)
(* acknowledgement carries expected_size = size; otherwise the answer is  *)
(* an error and active, expected and received are as before.              *)
(***************************************************************************)
BinaryStartAsSpecified(data) ==
    LET size == Get(data, "size", 0)
        w == process_json_command(World, data, Env({}, 100))
    IN  IF 0 < size /\ size <= binary_capacity
        THEN /\ w.tx = <<[type |-> "binary_ready", expected_size |-> size]>>
             /\ w.self = [self EXCEPT !.binary_mode = TRUE,
                                      !.binary_expected = size,
                                      !.binary_received = 0]
        ELSE /\ Len(w.tx) = 1 /\ w.tx[1].type = "error"
             /\ w.self = self

C19_BinaryStartValidatesSize ==
    \A data \in {d \in CmdMenu : Get(d, "command", None) = "binary_start"} :
        BinaryStartAsSpecified(data)

C19_Witness ==
    /\ uart_tx = <<[type |-> "binary_ready", expected_size |-> binary_capacity]>>
    /\ self.binary_mode
    /\ self.binary_expected = binary_capacity
    /\ self.binary_received = 0
    /\ self.binary_buffer[0] = "a"

(***************************************************************************)
(* C20: binary_end answers an error and changes nothing when binary mode  *)
(* is not active; when it is active the answer carries size = received    *)
(* and exactly the first `received' captured bytes, which are the bytes   *)
(* that arrived, in their order, up to the expected size; afterwards      *)
(* active is false and received and expected are 0.                        *)
(***************************************************************************)
BinaryEnd(w) == process_json_command(w, [command |-> "binary_end"], Env({}, 100))

Captured(s) == [i \in 1..s.binary_received |-> s.binary_buffer[i - 1]]

BinaryEndAsSpecified ==
    LET w == BinaryEnd(World)
    IN  IF ~self.binary_mode
        THEN /\ w.tx = <<[type |-> "error",
                          message |-> "Handler error: Not in binary mode",
                          timestamp |-> now]>>
             /\ w.self = self
        ELSE /\ w.tx = <<[type |-> "binary_complete", size |-> self.binary_received,
                          data |-> Captured(self)]>>
             /\ w.self = [self EXCEPT !.binary_mode = FALSE,
                                      !.binary_received = 0,
                                      !.binary_expected = 0]

\* a transfer that has just started returns the bytes that arrive, in order
ArrivalOrderKept ==
    (self.binary_mode /\ self.binary_received = 0) =>
        \A data \in BinaryChunks :
            LET w1 == process_binary_data(World, data, Env({}, 100))
                w2 == BinaryEnd([w1 EXCEPT !.tx = <<>>])
                n == Min(Len(data), self.binary_expected)
            IN  w2.tx = <<[type |-> "binary_complete", size |-> n,
                           data |-> SubSeq(data, 1, n)]>>

C20_BinaryEndReturnsCaptured == BinaryEndAsSpecified /\ ArrivalOrderKept

C20_Witness ==
    /\ uart_tx = <<[type |-> "binary_complete", size |-> 1, data |-> <<"b">>]>>
    /\ ~self.binary_mode
    /\ self.binary_received = 0 /\ self.binary_expected = 0
    /\ self.binary_buffer[1] = "a"

(***************************************************************************)
(* C21: when the cursor is not zero, binary mode is off and the tick       *)
(* counter stands more than timeout_ms after the arrival of the last       *)
(* stored byte (the counter not having wrapped in between: C30), a pass of *)
(* the loop that reads nothing dispatches the bytes before the cursor as a *)
(* frame, as a terminator would have, and leaves the cursor at 0; while    *)
(* binary mode is on no pass of the loop, whatever it reads, dispatches a  *)
(* frame or moves the cursor.                                              *)
(***************************************************************************)
\* a pass of the loop that reads data, at the present tick value
Pass(data) == process(World, data, Env({}, 100))

\* the pass has dispatched the bytes before the cursor as a frame, as a
\* terminator would have
Flushed(w) ==
    /\ w = process_buffer(World, Env({}, 100))
    /\ w.self.buf_pos = 0

InactivityFlushes ==
    (/\ self.buf_pos > 0 /\ ~self.binary_mode
     /\ now - self.last_char_time > timeout_ms) => Flushed(Pass(<<>>))

NoFlushInBinaryMode ==
    self.binary_mode =>
        /\ Pass(<<>>) = World
        /\ \A k \in 1..Len(uart_rx) :
              LET w == Pass(SubSeq(uart_rx, 1, k))
              IN  /\ \A i \in 1..Len(w.tx) : w.tx[i].type = "binary_received"
                  /\ w.self.buf_pos = self.buf_pos
                  /\ w.self.packet_count = self.packet_count

Terminators == {LF, CR}

LineOf(L) == [i \in 1..L |-> "a"]

HasOverflow(tx) ==
    \E i \in 1..Len(tx) : Get(tx[i], "message", None) = "Buffer overflow"

\* the engine has dispatched the L bytes of the line as its one frame
OneFrameOf(w, L) ==
    /\ w.self.packet_count = self.packet_count + 1
    /\ w.self.buf_pos = 0
    /\ \A i \in 1..L : w.self.command_buffer[i - 1] = LineOf(L)[i]
    /\ w.tx = <<[type |-> "error", message |-> "Unknown command", timestamp |-> now]>>

LineIsOneFrame ==
    \A L \in 1..buffer_size : \A t \in Terminators :
        LET w == process_data(World, Append(LineOf(L), t), Env({}, 100))
        IN  ~HasOverflow(w.tx) /\ OneFrameOf(w, L)

EmptyLineIsSilent ==
    \A t \in Terminators :
        LET w == process_data(World, <<t>>, Env({}, 100))
        IN  w.tx = <<>> /\ w.self = self

C22_LineIsOneFrame ==
    (self.buf_pos = 0 /\ ~self.binary_mode) => (LineIsOneFrame /\ EmptyLineIsSilent)

(***************************************************************************)
(* C23: with a session in progress, an ota_chunk that is answered with    *)
(* ota_progress has put its bytes behind the bytes the temp artifact held, *)
(* with or without an offset field, and has increased received_size by the *)
(* number of its bytes, leaving every other file as it was; an ota_chunk   *)
(* with no session in progress or with empty data is answered with an      *)
(* error and changes neither the session nor the storage.                  *)
(***************************************************************************)
FileOrEmpty(f, p) == IF p \in DOMAIN f THEN f[p] ELSE <<>>

ChunkAppended(w, d) ==
    /\ self.ota_in_progress
    /\ w.fs = With(fs, self.ota_temp, FileOrEmpty(fs, self.ota_temp) \o d.data)
    /\ w.self = [self EXCEPT !.ota_received = @ + Len(d.data)]
    /\ w.tx = <<[type |-> "ota_progress",
                 received |-> self.ota_received + Len(d.data),
                 total |-> self.ota_size]>>

ChunkRejected(w) ==
    /\ IsType(w.tx, "error")
    /\ w.self = self
    /\ w.fs = fs

C23_ChunkAppends ==
    \A d \in OtaChunkData : \A F \in Faults({"chunk.write"}) :
        LET w == process_json_command(World, d, Env(F, 100))
        IN  /\ IsType(w.tx, "ota_progress") => ChunkAppended(w, d)
            /\ (~self.ota_in_progress \/ d.data = <<>>) => ChunkRejected(w)
            /\ (self.ota_in_progress /\ d.data # <<>> /\ BytesOk(d.data) /\ F = {})
                  => IsType(w.tx, "ota_progress")

C23_Witness ==
    /\ self.ota_in_progress
    /\ self.ota_received = 2
    /\ self.ota_size = 1
    /\ fs[self.ota_temp] = <<1, 1>>
    /\ uart_tx = <<[type |-> "ota_progress", received |-> 2, total |-> 1]>>

(***************************************************************************)
(* C24: an ota_start whose size is <= 0 or more than 80% of the free      *)
(* memory is answered with an error and leaves the engine (the session    *)
(* fields among it) and every file as they were; an ota_start with a      *)
(* valid size, issued while idle, whose temp artifact can be opened is    *)
(* answered with ota_ready, and then <filename>.tmp exists and is empty,  *)
(* every other file is as before, received_size is 0 and expected_size    *)
(* and checksum are those of the command.                                 *)
(***************************************************************************)
StartFaults == Faults({"start.remove", "start.open"})

SizeValid(d, free_mem) == d.size > 0 /\ 10 * d.size <= 8 * free_mem

StartRejected(w) ==
    /\ ErrorMsg(w.tx) \in {"Handler error: Invalid file size",
                           "Handler error: File too large"}
    /\ w.self = self
    /\ w.fs = fs

StartOpened(w, d) ==
    LET filename == Get(d, "filename", "main.py")
    IN  /\ w.tx = <<[type |-> "ota_ready", filename |-> filename,
                     expected_size |-> d.size,
                     temp_file |-> filename \o ".tmp"]>>
        /\ w.fs = With(fs, filename \o ".tmp", <<>>)
        /\ w.self = [self EXCEPT !.ota_in_progress = TRUE,
                                 !.ota_filename = filename,
                                 !.ota_size = d.size,
                                 !.ota_received = 0,
                                 !.ota_checksum = Get(d, "checksum", None),
                                 !.ota_temp = filename \o ".tmp"]

C24_StartValidatesSize ==
    \A d \in OtaStartData : \A F \in StartFaults : \A m \in FreeMems :
        LET w == process_json_command(World, d, Env(F, m))
        IN  /\ ~SizeValid(d, m) => StartRejected(w)
            /\ (SizeValid(d, m) /\ ~self.ota_in_progress /\ "start.open" \notin F)
                  => StartOpened(w, d)

C24_Witness ==
    /\ self.ota_in_progress
    /\ self.ota_size = 1 /\ self.ota_received = 0
    /\ self.ota_checksum = "d1"
    /\ fs = [p \in {"main.py", "main.py.tmp"} |->
                IF p = "main.py" THEN <<0>> ELSE <<>>]
    /\ IsType(uart_tx, "ota_ready")

(***************************************************************************)
(* Batch: which handlers a list invokes.  An invocation shows in the       *)
(* engine it leaves and in the entry it adds to the batch result.          *)
(***************************************************************************)
\* the engine is as the handlers of the first n items leave it when each
\* item that names a registered command other than batch is invoked once,
\* in list order
InvokedInOrder(s, commands, n, env) ==
    s = WorldBefore(World, commands, n, env).self

\* every item that names a registered command other than batch has the one
\* entry its invocation yields
EachInvokedOnce(r, commands, env) ==
    \A k \in 0..(Len(commands) - 1) :
        ItemRuns(commands[k + 1]) =>
            IF CallHandler(commands[k + 1].command,
                           WorldBefore(World, commands, k, env),
                           commands[k + 1], env).exc # NoExc
            THEN IndexCount(r.errors, k) = 1 /\ IndexCount(r.results, k) = 0
            ELSE /\ IndexCount(r.errors, k) = 0
                 /\ IndexCount(r.results, k) = 1
                 /\ \E j \in 1..Len(r.results) :
                       r.results[j] = [index |-> k,
                                       result |-> ItemResult(World, commands, k, env)]

\* entries stand in the order of their items
InListOrder(entries) ==
    \A i, j \in 1..Len(entries) : i < j => entries[i].index < entries[j].index

OneBatchResult(tx, commands, env) ==
    /\ Len(tx) = 1
    /\ tx[1].type = "batch_result"
    /\ EachInvokedOnce(tx[1], commands, env)
    /\ InListOrder(tx[1].results) /\ InListOrder(tx[1].errors)

EmptyBatchRejected ==
    (BatchRan /\ ~NonEmptyBatch) =>
        /\ uart_tx' = <<[type |-> "error",
                         message |-> "Handler error: No commands provided",
                         timestamp |-> now]>>
        /\ self' = self

\* the number of items before the first reboot item, that item included
RECURSIVE UpToReboot(_)
UpToReboot(commands) ==
    IF commands = <<>> THEN 0
    ELSE IF Get(Head(commands), "command", None) = "reboot" THEN 1
    ELSE 1 + UpToReboot(Tail(commands))

(***************************************************************************)
(* C25 as stated: a non-empty batch invokes the handler of every item     *)
(* that names a registered command other than batch exactly once, in list *)
(* order, whatever happened to the items before it, and writes one        *)
(* response, the batch result; an empty list is answered with an error    *)
(* and no item runs.                                                       *)
(***************************************************************************)
C25_BatchInvokesEveryItem ==
    [][/\ (BatchRan /\ NonEmptyBatch) =>
             LET commands == host.req.commands
                 env == Env(host.faults, 100)
             IN  /\ OneBatchResult(uart_tx', commands, env)
                 /\ InvokedInOrder(self', commands, Len(commands), env)
       /\ EmptyBatchRejected]_vars

(***************************************************************************)
(* C25 amended: the same for the items up to the first reboot item: a     *)
(* batch without a reboot item invokes every such item once, in order,    *)
(* and writes the batch result as its one response; a reboot item resets  *)
(* the device after its acknowledgement, the items after it are not       *)
(* invoked and no batch result is written.                                 *)
(***************************************************************************)
C25_BatchInvokesUpToReboot ==
    [][/\ (BatchRan /\ NonEmptyBatch) =>
             LET commands == host.req.commands
                 env == Env(host.faults, 100)
             IN  IF HasReboot(commands)
                 THEN /\ uart_tx' = <<[type |-> "reboot", message |-> "Rebooting..."]>>
                      /\ self' = InitSelf
                      /\ WorldBefore(World, commands, UpToReboot(commands), env).reset
                      /\ ~WorldBefore(World, commands, UpToReboot(commands) - 1, env).reset
                 ELSE /\ OneBatchResult(uart_tx', commands, env)
                      /\ InvokedInOrder(self', commands, Len(commands), env)
       /\ EmptyBatchRejected]_vars

C25_Witness ==
    /\ host.phase = "done"
    /\ host.faults = {"device"}
    /\ NonEmptyBatch
    /\ host.req.commands = <<[command |-> "file_read"], [command |-> "nope"],
                             [command |-> "binary_start", size |-> 1]>>
    /\ self.binary_mode
    /\ Len(uart_tx) = 1
    /\ uart_tx[1].results =
           <<[index |-> 2, result |-> [type |-> "binary_ready", expected_size |-> 1]]>>
    /\ uart_tx[1].error_count = 2

(***************************************************************************)
(* C26 as stated: an ota_finish that is answered with an error, whatever  *)
(* the reason (no session, size or checksum mismatch, a storage call that *)
(* fails before or after the validation), leaves at every target path the *)
(* file that was there before the call.                                    *)
(***************************************************************************)
C26_FailedFinishKeepsTarget ==
    [][\A F \in FinishFaults :
          (FinishStep(F) /\ IsType(uart_tx', "error")) =>
              \A p \in Filenames : SameFile(p)]_vars

(***************************************************************************)
(* C27 as stated: over every sequence of ota_start, ota_chunk, ota_finish *)
(* and ota_abort commands, with any file names, no temp artifact of an    *)
(* ota_start exists while the session is idle and exactly one exists      *)
(* while a session is in progress.                                         *)
(***************************************************************************)
TempArtifacts == {p \in DOMAIN fs : \E f \in UpdateFiles : p = f \o ".tmp"}

C27_OneTempPerSession ==
    IF self.ota_in_progress
    THEN Cardinality(TempArtifacts) = 1
    ELSE TempArtifacts = {}

(***************************************************************************)
(* C28: ota_finish verifies the checksum of the ota_start that opened the *)
(* session and no other: in every state, whatever sessions came before    *)
(* and whatever checksum they left behind, a session opened without a     *)
(* checksum and filled to its declared size is finished with no checksum  *)
(* comparison (it completes whatever the digest of its content), and a    *)
(* session opened with a checksum completes exactly when the digest of    *)
(* its content equals that checksum.                                       *)
(***************************************************************************)
Dispatch(w, data) == process_json_command([w EXCEPT !.tx = <<>>], data, Env({}, 100))

\* the responses to ota_finish after the session d opens has received content
SessionOutcome(d, content) ==
    Dispatch(Dispatch(Dispatch(World, d),
                      [command |-> "ota_chunk", data |-> content]),
             [command |-> "ota_finish"]).tx

C28_ChecksumOfThisSession ==
    \A d \in FileStartData :
        LET content == [i \in 1..d.size |-> 1]
            tx == SessionOutcome(d, content)
        IN  IF "checksum" \notin DOMAIN d \/ Md5Hex(content) = d.checksum
            THEN IsType(tx, "ota_complete")
            ELSE ErrorMsg(tx) = ChecksumMismatchMsg

C28_Witness ==
    /\ "main.py.bak" \in DOMAIN fs
    /\ ~self.ota_in_progress
    /\ self.ota_checksum = None
    /\ self.ota_filename = "lib.py"
    /\ "lib.py" \in DOMAIN fs /\ fs["lib.py"] = <<1, 1>>
    /\ Md5Hex(fs["lib.py"]) # "d1"
    /\ IsType(uart_tx, "ota_complete")

(***************************************************************************)
(* C29 as stated: in text mode every line that is dispatched as a frame   *)
(* (a JSON frame or a plain-text command that is not blank) has at least  *)
(* one response written for it by the time its terminator has been        *)
(* handled, unless the frame resets the device.                            *)
(***************************************************************************)
FrameAnswered(line) ==
    LET w == process_data(World, line, Env({}, 100))
    IN  (w.self.packet_count = self.packet_count + 1 /\ ~w.reset) => w.tx # <<>>

C29_EveryFrameAnswered ==
    (self.buf_pos = 0 /\ ~self.binary_mode) =>
        \A line \in JsonLines \cup TextLines : FrameAnswered(line)

(***************************************************************************)
(* C30 as stated: the tick counter counts modulo TicksPeriod.  When d     *)
(* ticks (less than one period) have passed since the last byte was       *)
(* stored in a partial frame, a pass of the loop that reads nothing       *)
(* flushes the frame if d is more than timeout_ms and leaves it alone     *)
(* otherwise, also when the counter has wrapped around in between.        *)
(***************************************************************************)
\* the value of utime.ticks_ms() d ticks after the last byte was stored
TicksAfter(d) == (self.last_char_time + d) % TicksPeriod

\* a pass of the loop that reads nothing at tick value t flushes the frame
FlushesAt(t) ==
    process(World, <<>>, [faults |-> {}, free_mem |-> 100, ticks |-> t]).self.buf_pos = 0

C30_FlushAcrossWrap ==
    (self.buf_pos > 0 /\ ~self.binary_mode) =>
        \A d \in 0..(TicksPeriod - 1) : FlushesAt(TicksAfter(d)) <=> d > timeout_ms

====
